---- MODULE Spec2Model ----
(***************************************************************************)
(* Model of sdkmanager/win_android/find_java.cpp: the three Java locators  *)
(* (environment, registry, Program Files), the executability check they    *)
(* share, and the registry value reader.                                   *)
(*                                                                         *)
(* A CString is a sequence of tokens (strings); a CPath is a sequence of   *)
(* segments, each segment a CString.  The host (environment variables,     *)
(* files, registry, Program Files layout, architecture) is chosen by Init  *)
(* and never changes; every action is one call of a function of the file.  *)
(***************************************************************************)
EXTENDS Integers, Sequences, FiniteSets, TLC

VARIABLES
    environ,      \* environment block: variable name -> CString (unset: not in DOMAIN)
    files,        \* launcher CPath -> "exit0" | "exit1" | "nospawn" (absent: not in DOMAIN)
    registry,     \* registry view -> (key path -> (value name -> [data, size]))
    progFiles,    \* redirection state -> what the Program Files probe sees
    arch,         \* native processor architecture
    wow,          \* TRUE: WOW64 file system redirection is in force for the thread
    outJavaPath,  \* the caller's CPath handed to the locators
    outBefore,    \* outJavaPath as it was when the last call started
    op,           \* the last call made
    ret,          \* its return value: "true" | "false" | "crash" | "none"
    probes,       \* the checkPath calls it made, in order
    regReads,     \* the getRegValue calls it made, in order
    passes,       \* the checkProgramFiles passes it made, in order
    arg,          \* the argument of the last call
    valueOut,     \* the caller's CString handed to getRegValue
    junk,         \* what a freshly allocated, unwritten buffer reads as (a CString)
    overflow      \* TRUE when the last call wrote outside a buffer it allocated

vars == <<environ, files, registry, progFiles, arch, wow, outJavaPath,
          outBefore, op, ret, probes, regReads, passes, arg, valueOut,
          junk, overflow>>

host == <<environ, files, registry, progFiles, arch, junk>>

-----------------------------------------------------------------------------
(* Bounds *)

\* Longest PATH value, in tokens (directory names and ';').
MaxPathLen == 5

\* Most entries in a listing of <Program Files>\Java.
MaxEntries == 2

-----------------------------------------------------------------------------
(* Strings and paths *)

Str(s) == <<s>>

EmptyPath == <<>>

CPathOf(s) == <<s>>

addPath(p, s) == Append(p, s)

\* F applied to the value of v, with v evaluated once: the result of a call,
\* held in a local variable of the code.
Bind(v, F(_)) == CHOOSE r \in {F(x) : x \in {v}} : TRUE

RECURSIVE SplitFrom(_, _, _, _)
SplitFrom(s, sep, i, cur) ==
    IF i > Len(s) THEN <<cur>>
    ELSE IF s[i] = sep THEN <<cur>> \o SplitFrom(s, sep, i + 1, <<>>)
    ELSE SplitFrom(s, sep, i + 1, Append(cur, s[i]))

split(s, sep) == SplitFrom(s, sep, 1, <<>>)

-----------------------------------------------------------------------------
(* Operating system and utility calls *)

IsSet(name) == name \in DOMAIN environ

getenv(name) == environ[name]

fileExists(p) == p \in DOMAIN files

execWait(p) ==
    CASE files[p] = "exit0" -> 0
      [] files[p] = "exit1" -> 1
      [] OTHER -> -1

\* The call state threaded through a call: redirection flag, probe log,
\* registry read log, Program Files pass log, whether a write left its buffer.
CallState(w) ==
    [wow |-> w, probes |-> <<>>, reads |-> <<>>, passes |-> <<>>, overflow |-> FALSE]

disableWow64FsRedirection(st) == [old |-> st.wow, st |-> [st EXCEPT !.wow = FALSE]]

revertWow64FsRedirection(old, st) == [st EXCEPT !.wow = old]

-----------------------------------------------------------------------------
(* checkPath, checkBinPath *)

\* checkPath returning early on a missing file, before the revert.
checkPath_LeaksRedirection(inPath, st) ==
    LET p == addPath(inPath, Str("java.exe"))
        exists == fileExists(p)
        result == exists /\ execWait(p) = 0
    IN Bind(disableWow64FsRedirection(st), LAMBDA d :
       [result |-> result, path |-> p,
        st |-> IF exists
               THEN revertWow64FsRedirection(d.old,
                       [d.st EXCEPT !.probes =
                           Append(@, [path |-> p, spawned |-> exists,
                                      result |-> result, wow |-> d.st.wow,
                                      reads |-> Len(d.st.reads)])])
               ELSE [d.st EXCEPT !.probes =
                        Append(@, [path |-> p, spawned |-> exists,
                                   result |-> result, wow |-> d.st.wow,
                                   reads |-> Len(d.st.reads)])]])

\* checkPath with the exit code of the child ignored.
checkPath_IgnoresExitCode(inPath, st) ==
    LET p == addPath(inPath, Str("java.exe"))
        exists == fileExists(p)
    IN Bind(disableWow64FsRedirection(st), LAMBDA d :
       [result |-> exists, path |-> p,
        st |-> revertWow64FsRedirection(d.old,
                  [d.st EXCEPT !.probes =
                      Append(@, [path |-> p, spawned |-> exists,
                                 result |-> exists, wow |-> d.st.wow,
                                 reads |-> Len(d.st.reads)])])])

checkPath(inPath, st) ==
    LET p == addPath(inPath, Str("java.exe"))
        exists == fileExists(p)
        result == exists /\ execWait(p) = 0
    IN Bind(disableWow64FsRedirection(st), LAMBDA d :
       [result |-> result, path |-> p,
        st |-> revertWow64FsRedirection(d.old,
                  [d.st EXCEPT !.probes =
                      Append(@, [path |-> p, spawned |-> exists,
                                 result |-> result, wow |-> d.st.wow,
                                 reads |-> Len(d.st.reads)])])])

checkBinPath(inPath, st) == checkPath(addPath(inPath, Str("bin")), st)

-----------------------------------------------------------------------------
(* findJavaInEnvPath *)

\* The PATH loop storing every candidate it probes into *outJavaPath.
RECURSIVE EnvPathLoop_WritesRejected(_, _, _, _)
EnvPathLoop_WritesRejected(paths, i, out, st) ==
    IF i > Len(paths) THEN [ret |-> FALSE, out |-> out, st |-> st]
    ELSE Bind(checkPath(CPathOf(paths[i]), st), LAMBDA c :
            IF c.result
            THEN [ret |-> TRUE, out |-> c.path, st |-> c.st]
            ELSE EnvPathLoop_WritesRejected(paths, i + 1, c.path, c.st))

RECURSIVE EnvPathLoop(_, _, _, _)
EnvPathLoop(paths, i, out, st) ==
    IF i > Len(paths) THEN [ret |-> FALSE, out |-> out, st |-> st]
    ELSE Bind(checkPath(CPathOf(paths[i]), st), LAMBDA c :
            IF c.result
            THEN [ret |-> TRUE, out |-> c.path, st |-> c.st]
            ELSE EnvPathLoop(paths, i + 1, out, c.st))

EnvPathPart(out, st) ==
    IF ~IsSet("PATH") THEN [ret |-> FALSE, out |-> out, st |-> st]
    ELSE EnvPathLoop(split(getenv("PATH"), ";"), 1, out, st)

\* findJavaInEnvPath with PATH consulted before JAVA_HOME.
findJavaInEnvPath_PathFirst(out, st) ==
    Bind(EnvPathPart(out, st), LAMBDA r :
       IF r.ret \/ ~IsSet("JAVA_HOME") THEN r
       ELSE Bind(checkBinPath(CPathOf(getenv("JAVA_HOME")), r.st), LAMBDA c :
            IF c.result
            THEN [ret |-> TRUE, out |-> c.path, st |-> c.st]
            ELSE [ret |-> FALSE, out |-> out, st |-> c.st]))

findJavaInEnvPath(out, st) ==
    IF IsSet("JAVA_HOME")
    THEN Bind(checkBinPath(CPathOf(getenv("JAVA_HOME")), st), LAMBDA c :
            IF c.result
            THEN [ret |-> TRUE, out |-> c.path, st |-> c.st]
            ELSE EnvPathPart(out, c.st))
    ELSE EnvPathPart(out, st)

-----------------------------------------------------------------------------
(* getRegValue *)

InitialBufferSize == 4096

MaxBufferSize == 65536

ViewOf(access) ==
    CASE access = "KEY_WOW64_32KEY" -> "32"
      [] access = "KEY_WOW64_64KEY" -> "64"
      [] OTHER -> "default"

RegOpenKeyExA(keyPath, access) == keyPath \in DOMAIN registry[ViewOf(access)]

\* One query of value keyName of an open key into a buffer announced as
\* `size` bytes: the status, the size stored back, whether data was copied.
RegQueryValueExA(key, keyName, size) ==
    IF keyName \notin DOMAIN key
    THEN [status |-> "ERROR_FILE_NOT_FOUND", size |-> size, copied |-> FALSE]
    ELSE IF key[keyName].size > size
    THEN [status |-> "ERROR_MORE_DATA", size |-> key[keyName].size, copied |-> FALSE]
    ELSE [status |-> "ERROR_SUCCESS", size |-> key[keyName].size, copied |-> TRUE]

\* The while loop of getRegValue.  cap is the allocated size of buffer,
\* filled whether the query copied the value in, ovf whether
\* buffer[size] = 0 was written at an index >= cap.  The sizes of the model
\* stay below 2^31, where size *= 2 on a DWORD does not wrap.
RECURSIVE RegValueLoop(_, _, _, _, _, _, _)
RegValueLoop(key, keyName, status, size, cap, filled, ovf) ==
    IF status = "ERROR_MORE_DATA" /\ size < MaxBufferSize
    THEN LET q == RegQueryValueExA(key, keyName, size)
             doubled == q.size * 2
         IN IF q.status = "ERROR_MORE_DATA"
            THEN RegValueLoop(key, keyName, q.status, doubled, doubled, filled, ovf)
            ELSE RegValueLoop(key, keyName, q.status, q.size, cap,
                              q.copied, ovf \/ q.size >= cap)
    ELSE [status |-> status, size |-> size, cap |-> cap,
          filled |-> filled, ovf |-> ovf]

getRegValue(keyPath, keyName, access, outValue, st) ==
    IF ~RegOpenKeyExA(keyPath, access)
    THEN [ret |-> FALSE, value |-> outValue,
          st |-> [st EXCEPT !.reads =
                     Append(@, [key |-> keyPath, name |-> keyName,
                                view |-> ViewOf(access), status |-> "NO_KEY",
                                ret |-> FALSE, index |-> 0, cap |-> 0])]]
    ELSE Bind(RegValueLoop(registry[ViewOf(access)][keyPath], keyName,
                           "ERROR_MORE_DATA", InitialBufferSize, InitialBufferSize,
                           FALSE, FALSE), LAMBDA l :
            LET ok == l.status # "ERROR_MORE_DATA"
                buffer == IF l.filled
                          THEN registry[ViewOf(access)][keyPath][keyName].data
                          ELSE junk
            IN [ret |-> ok,
                value |-> IF ok THEN buffer ELSE outValue,
                st |-> [st EXCEPT
                           !.overflow = @ \/ l.ovf,
                           !.reads = Append(@, [key |-> keyPath, name |-> keyName,
                                                view |-> ViewOf(access),
                                                status |-> l.status, ret |-> ok,
                                                index |-> l.size, cap |-> l.cap])]])

-----------------------------------------------------------------------------
(* exploreJavaRegistry, findJavaInRegistry *)

JavaSoft == Str("SOFTWARE\\JavaSoft\\")

exploreJavaRegistry(entry, access, out, st) ==
    LET subKey == addPath(CPathOf(JavaSoft), Str(entry))
    IN Bind(getRegValue(subKey, "CurrentVersion", access, <<>>, st), LAMBDA cv :
       IF ~cv.ret THEN [ret |-> FALSE, out |-> out, st |-> cv.st]
       ELSE Bind(getRegValue(addPath(subKey, cv.value), "JavaHome",
                             access, <<>>, cv.st), LAMBDA jh :
            IF ~jh.ret THEN [ret |-> FALSE, out |-> out, st |-> jh.st]
            ELSE Bind(checkBinPath(CPathOf(jh.value), jh.st), LAMBDA c :
                 IF c.result
                 THEN [ret |-> TRUE, out |-> c.path, st |-> c.st]
                 ELSE [ret |-> FALSE, out |-> out, st |-> c.st])))

\* a || b on two exploreJavaRegistry calls: b is evaluated only when a fails.
ExplorePair(access, out, st) ==
    Bind(exploreJavaRegistry("Java Runtime Environment", access, out, st), LAMBDA jre :
       IF jre.ret THEN jre
       ELSE exploreJavaRegistry("Java Development Kit", access, out, jre.st))

GetNativeSystemInfo == arch

\* findJavaInRegistry with the forced 64-bit view tried before the 32-bit one.
findJavaInRegistry_64Before32(out, st) ==
    Bind(ExplorePair("0", out, st), LAMBDA d :
       IF d.ret THEN d
       ELSE IF GetNativeSystemInfo = "AMD64"
       THEN Bind(ExplorePair("KEY_WOW64_64KEY", out, d.st), LAMBDA v64 :
            IF v64.ret THEN v64
            ELSE Bind(ExplorePair("KEY_WOW64_32KEY", out, v64.st), LAMBDA v32 :
                 IF v32.ret THEN v32
                 ELSE [ret |-> FALSE, out |-> out, st |-> v32.st]))
       ELSE [ret |-> FALSE, out |-> out, st |-> d.st])

findJavaInRegistry(out, st) ==
    Bind(ExplorePair("0", out, st), LAMBDA d :
       IF d.ret THEN d
       ELSE IF GetNativeSystemInfo = "AMD64"
       THEN Bind(ExplorePair("KEY_WOW64_32KEY", out, d.st), LAMBDA v32 :
            IF v32.ret THEN v32
            ELSE Bind(ExplorePair("KEY_WOW64_64KEY", out, v32.st), LAMBDA v64 :
                 IF v64.ret THEN v64
                 ELSE [ret |-> FALSE, out |-> out, st |-> v64.st]))
       ELSE [ret |-> FALSE, out |-> out, st |-> d.st])

-----------------------------------------------------------------------------
(* checkProgramFiles, findJavaInProgramFiles *)

\* What the file system calls answer under the redirection state in force.
SHGetFolderPathA(st) == progFiles[st.wow]

dirExists(st) == progFiles[st.wow].javaDir

MatchesGlob(name) == Len(name) > 0 /\ name[1] = "j"

\* The entries FindFirstFileA / FindNextFileA enumerate for <folder>\Java\j*.
FindFiles(st) == SelectSeq(progFiles[st.wow].entries, LAMBDA e : MatchesGlob(e.name))

\* The loop without !found in its condition: every entry is scanned and the
\* last success is kept.
RECURSIVE ProgramFilesLoop_ScansAll(_, _, _, _, _)
ProgramFilesLoop_ScansAll(path, found, i, out, st) ==
    LET rest(o, s, hit) ==
            IF i < Len(found)
            THEN Bind(ProgramFilesLoop_ScansAll(path, found, i + 1, o, s), LAMBDA r :
                    [r EXCEPT !.ret = @ \/ hit])
            ELSE [ret |-> hit, out |-> o, st |-> s]
    IN IF found[i].dir
       THEN Bind(checkBinPath(addPath(path, found[i].name), st), LAMBDA c :
               IF c.result THEN rest(c.path, c.st, TRUE) ELSE rest(out, c.st, FALSE))
       ELSE rest(out, st, FALSE)

\* The do ... while (!found && FindNextFileA(...)) loop, at entry i.
RECURSIVE ProgramFilesLoop(_, _, _, _, _)
ProgramFilesLoop(path, found, i, out, st) ==
    IF found[i].dir
    THEN Bind(checkBinPath(addPath(path, found[i].name), st), LAMBDA c :
            IF c.result THEN [ret |-> TRUE, out |-> c.path, st |-> c.st]
            ELSE IF i < Len(found) THEN ProgramFilesLoop(path, found, i + 1, out, c.st)
            ELSE [ret |-> FALSE, out |-> out, st |-> c.st])
    ELSE IF i < Len(found) THEN ProgramFilesLoop(path, found, i + 1, out, st)
    ELSE [ret |-> FALSE, out |-> out, st |-> st]

ProgramFilesScan(out, st) ==
    LET f == SHGetFolderPathA(st)
        path == addPath(CPathOf(f.folder), Str("Java"))
        found == FindFiles(st)
    IN IF f.result # "S_OK" THEN [ret |-> FALSE, out |-> out, st |-> st]
       ELSE IF ~dirExists(st) THEN [ret |-> FALSE, out |-> out, st |-> st]
       ELSE IF Len(found) = 0 THEN [ret |-> FALSE, out |-> out, st |-> st]
       ELSE ProgramFilesLoop(path, found, 1, out, st)

\* checkProgramFiles, with the pass entered in the pass log.
checkProgramFiles(out, st) ==
    Bind(ProgramFilesScan(out, st), LAMBDA r :
       [r EXCEPT !.st.passes =
           Append(@, [wow |-> st.wow, ret |-> r.ret, out |-> r.out,
                      probed |-> Len(r.st.probes) - Len(st.probes)])])

\* findJavaInProgramFiles without the test of the processor architecture.
findJavaInProgramFiles_NoArchTest(out, st) ==
    Bind(checkProgramFiles(out, st), LAMBDA first :
       IF first.ret THEN first
       ELSE Bind(disableWow64FsRedirection(first.st), LAMBDA d :
            Bind(checkProgramFiles(first.out, d.st), LAMBDA second :
                 [ret |-> second.ret, out |-> second.out,
                  st |-> revertWow64FsRedirection(d.old, second.st)])))

findJavaInProgramFiles(out, st) ==
    Bind(checkProgramFiles(out, st), LAMBDA first :
       IF first.ret THEN first
       ELSE IF GetNativeSystemInfo = "AMD64"
       THEN Bind(disableWow64FsRedirection(first.st), LAMBDA d :
            Bind(checkProgramFiles(first.out, d.st), LAMBDA second :
                 [ret |-> second.ret, out |-> second.out,
                  st |-> revertWow64FsRedirection(d.old, second.st)]))
       ELSE [ret |-> FALSE, out |-> first.out, st |-> first.st])

-----------------------------------------------------------------------------
(* Host configurations *)

DirNames == {"a", "b"}

Tokens == DirNames \cup {";"}

SeqsUpTo(S, n) == UNION {[1..k -> S] : k \in 0..n}

Roots == {Str(d) : d \in DirNames}

DirectLauncher(dir) == <<dir, Str("java.exe")>>

BinLauncher(dir) == <<dir, Str("bin"), Str("java.exe")>>

DirectLaunchers(roots) == {<<r, Str("java.exe")>> : r \in roots}

BinLaunchers(roots) == {<<r, Str("bin"), Str("java.exe")>> : r \in roots}

Launchers(roots) == DirectLaunchers(roots) \cup BinLaunchers(roots)

PartialFns(D, R) == UNION {[S -> R] : S \in SUBSET D}

ExitKinds == {"exit0", "exit1", "nospawn"}

NoEnviron == <<>>

NoRegistry == [v \in {"default", "32", "64"} |-> <<>>]

NoFolder == [result |-> "E_FAIL", folder |-> <<>>, javaDir |-> FALSE, entries |-> <<>>]

NoProgFiles == [w \in BOOLEAN |-> NoFolder]

\* Registry contents
Products == {"Java Runtime Environment", "Java Development Kit"}

Version == Str("1.7")

RegVal(d) == [data |-> d, size |-> 8]

ProdKey(p) == <<JavaSoft, Str(p)>>

VerKey(p, v) == <<JavaSoft, Str(p), v>>

NoValues == <<>>

ProductOptions == {"nokey", "nocv", "nosub", "nohome", "home_a", "home_b"}

ProductKeys(p, o) ==
    CASE o = "nokey" -> <<>>
      [] o = "nocv" -> (ProdKey(p) :> NoValues) @@
                       (VerKey(p, Version) :> ("JavaHome" :> RegVal(Str("a"))))
      [] o = "nosub" -> (ProdKey(p) :> ("CurrentVersion" :> RegVal(Version)))
      [] o = "nohome" -> (ProdKey(p) :> ("CurrentVersion" :> RegVal(Version))) @@
                         (VerKey(p, Version) :> NoValues)
      [] o = "home_a" -> (ProdKey(p) :> ("CurrentVersion" :> RegVal(Version))) @@
                         (VerKey(p, Version) :> ("JavaHome" :> RegVal(Str("a"))))
      [] OTHER -> (ProdKey(p) :> ("CurrentVersion" :> RegVal(Version))) @@
                  (VerKey(p, Version) :> ("JavaHome" :> RegVal(Str("b"))))

ViewKeys(jre, jdk) ==
    ProductKeys("Java Runtime Environment", jre) @@
    ProductKeys("Java Development Kit", jdk)

ViewContents(opts) == {ViewKeys(jre, jdk) : jre \in opts, jdk \in opts}

Archs == {"x86", "AMD64"}

JunkValues == {Str("?"), Str("a"), Version}

Idle ==
    /\ outJavaPath = EmptyPath
    /\ outBefore = EmptyPath
    /\ op = "none"
    /\ ret = "none"
    /\ probes = <<>>
    /\ regReads = <<>>
    /\ passes = <<>>
    /\ arg = <<>>
    /\ valueOut = <<>>
    /\ overflow = FALSE

Environs(paths) ==
    PartialFns({"JAVA_HOME"}, Roots) \cup PartialFns({"PATH"}, paths) \cup
    {[n \in {"JAVA_HOME", "PATH"} |-> IF n = "PATH" THEN p ELSE j] :
        p \in paths, j \in Roots}

InitEnv ==
    /\ environ \in Environs(SeqsUpTo(Tokens, MaxPathLen))
    /\ files \in PartialFns(Launchers(Roots), {"exit0", "exit1"})
    /\ registry = NoRegistry
    /\ progFiles = NoProgFiles
    /\ arch = "x86"
    /\ junk = Str("?")
    /\ wow = TRUE
    /\ Idle

InitCheck ==
    /\ environ = NoEnviron
    /\ files \in PartialFns(Launchers(Roots), ExitKinds)
    /\ registry = NoRegistry
    /\ progFiles = NoProgFiles
    /\ arch = "x86"
    /\ junk = Str("?")
    /\ wow \in BOOLEAN
    /\ Idle

InitReg ==
    /\ environ = NoEnviron
    /\ files \in PartialFns(BinLaunchers(Roots), {"exit0", "exit1"})
    /\ arch \in Archs
    /\ \E v32 \in ViewContents(ProductOptions), v64 \in ViewContents(ProductOptions),
          d \in {"32", "64"} :
          /\ arch = "x86" => v64 = v32 /\ d = "32"
          /\ registry = [v \in {"default", "32", "64"} |->
                            CASE v = "32" -> v32 [] v = "64" -> v64
                              [] OTHER -> IF d = "32" THEN v32 ELSE v64]
    /\ progFiles = NoProgFiles
    /\ junk \in JunkValues
    /\ wow = TRUE
    /\ Idle

\* Program Files layouts
JavaDirNames == {<<"j", "dk">>, <<"j", "re">>}

OtherDirName == <<"x">>

DirEntries ==
    {[name |-> n, dir |-> d] : n \in JavaDirNames, d \in BOOLEAN} \cup
    {[name |-> OtherDirName, dir |-> TRUE]}

\* The names of a directory's entries are distinct.
Listings ==
    {l \in SeqsUpTo(DirEntries, MaxEntries) :
        \A i, j \in 1..Len(l) : l[i].name = l[j].name => i = j}

FolderViews(folder) ==
    {NoFolder, [result |-> "S_OK", folder |-> folder, javaDir |-> FALSE, entries |-> <<>>]}
    \cup {[result |-> "S_OK", folder |-> folder, javaDir |-> TRUE, entries |-> l] :
             l \in Listings}

ProgramFilesX86 == Str("Program Files (x86)")

ProgramFiles == Str("Program Files")

PFLaunchers ==
    {<<f, Str("Java"), n, Str("bin"), Str("java.exe")>> :
        f \in {ProgramFilesX86, ProgramFiles}, n \in JavaDirNames}

\* A 64-bit host shows a 32-bit process one layout with redirection in force
\* and another with it suppressed; a 32-bit host has a single layout.
InitPF ==
    /\ environ = NoEnviron
    /\ files \in PartialFns(PFLaunchers, {"exit0", "exit1"})
    /\ registry = NoRegistry
    /\ arch \in Archs
    /\ \E r \in FolderViews(ProgramFilesX86), n \in FolderViews(ProgramFiles) :
          progFiles = [w \in BOOLEAN |-> IF w /\ arch = "AMD64" THEN r ELSE n]
    /\ junk = Str("?")
    /\ wow = TRUE
    /\ Idle

InitExplore ==
    /\ environ = NoEnviron
    /\ files \in PartialFns(BinLaunchers(Roots), {"exit0", "exit1"})
    /\ arch = "AMD64"
    /\ registry \in {[v \in {"default", "32", "64"} |->
                         CASE v = "32" -> c [] v = "64" -> <<>> [] OTHER -> c] :
                       c \in ViewContents(ProductOptions)}
    /\ progFiles = NoProgFiles
    /\ junk \in JunkValues
    /\ wow = TRUE
    /\ Idle

\* Registry values of the sizes around the buffer sizes of getRegValue.
ValueSizes == {0, 1, 4095, 4096, 4097, 8191, 8192, 8193, 16384, 20000, 32767,
               32768, 40000, 65535, 65536, 70000}

TestKey == ProdKey("Java Runtime Environment")

InitRegValue ==
    /\ environ = NoEnviron
    /\ files = <<>>
    /\ arch = "x86"
    /\ \E k \in {NoValues} \cup
                 {"JavaHome" :> [data |-> d, size |-> n] :
                     d \in {Str("a"), Str("b")}, n \in ValueSizes} :
          registry = [v \in {"default", "32", "64"} |-> TestKey :> k]
    /\ progFiles = NoProgFiles
    /\ junk \in JunkValues
    /\ wow = TRUE
    /\ Idle

\* One host with all three sources of candidates, each small.
Init ==
    /\ environ \in {NoEnviron, "PATH" :> <<"b", ";", "a">>,
                     ("JAVA_HOME" :> Str("a")) @@ ("PATH" :> <<"b", ";", "a">>)}
    /\ \E bin \in PartialFns({BinLauncher(Str("a"))}, ExitKinds),
          other \in PartialFns({DirectLauncher(Str("a")),
                                <<ProgramFiles, Str("Java"), <<"j", "dk">>,
                                  Str("bin"), Str("java.exe")>>}, {"exit0", "exit1"}) :
          files = bin @@ other
    /\ arch \in Archs
    /\ \E o \in {"nokey", "nohome", "home_a"} :
          registry = [v \in {"default", "32", "64"} |-> ViewKeys(o, "nokey")]
    /\ \E r, n \in {NoFolder,
                     [result |-> "S_OK", folder |-> ProgramFiles, javaDir |-> FALSE,
                      entries |-> <<>>],
                     [result |-> "S_OK", folder |-> ProgramFiles, javaDir |-> TRUE,
                      entries |-> <<[name |-> OtherDirName, dir |-> TRUE]>>],
                     [result |-> "S_OK", folder |-> ProgramFiles, javaDir |-> TRUE,
                      entries |-> <<[name |-> <<"j", "dk">>, dir |-> TRUE]>>]} :
          progFiles = [w \in BOOLEAN |-> IF w /\ arch = "AMD64" THEN r ELSE n]
    /\ junk = Str("?")
    /\ wow \in BOOLEAN
    /\ Idle

-----------------------------------------------------------------------------
(* Calls *)

Bool(b) == IF b THEN "true" ELSE "false"

Returned(name, a, r, val) ==
    /\ op' = name
    /\ arg' = a
    /\ ret' = Bool(r.ret)
    /\ outBefore' = outJavaPath
    /\ outJavaPath' = r.out
    /\ valueOut' = val
    /\ wow' = r.st.wow
    /\ probes' = r.st.probes
    /\ regReads' = r.st.reads
    /\ passes' = r.st.passes
    /\ overflow' = r.st.overflow
    /\ UNCHANGED host

\* A write outside the buffer may corrupt the heap: the process can die in the
\* call (at free) instead of returning.
Crashed(name, a, r) ==
    /\ r.st.overflow
    /\ op' = name
    /\ arg' = a
    /\ ret' = "crash"
    /\ outBefore' = outJavaPath
    /\ probes' = r.st.probes
    /\ regReads' = r.st.reads
    /\ passes' = r.st.passes
    /\ overflow' = TRUE
    /\ UNCHANGED <<outJavaPath, valueOut, wow>>
    /\ UNCHANGED host

Running == ret # "crash"

CallCheckPath ==
    /\ Running
    /\ \E d \in Roots :
          LET c == checkPath(CPathOf(d), CallState(wow))
          IN Returned("checkPath", CPathOf(d),
                      [ret |-> c.result, out |-> outJavaPath, st |-> c.st], valueOut)

CallCheckBinPath ==
    /\ Running
    /\ \E d \in Roots :
          LET c == checkBinPath(CPathOf(d), CallState(wow))
          IN Returned("checkBinPath", CPathOf(d),
                      [ret |-> c.result, out |-> outJavaPath, st |-> c.st], valueOut)

CallFindJavaInEnvPath ==
    /\ Running
    /\ Returned("findJavaInEnvPath", <<>>,
                findJavaInEnvPath(outJavaPath, CallState(wow)), valueOut)

CallFindJavaInRegistry ==
    /\ Running
    /\ Returned("findJavaInRegistry", <<>>,
                findJavaInRegistry(outJavaPath, CallState(wow)), valueOut)

CrashFindJavaInRegistry ==
    /\ Running
    /\ Crashed("findJavaInRegistry", <<>>,
               findJavaInRegistry(outJavaPath, CallState(wow)))

CallExploreJavaRegistry ==
    /\ Running
    /\ \E p \in Products, a \in {"0", "KEY_WOW64_32KEY", "KEY_WOW64_64KEY"} :
          Returned("exploreJavaRegistry", <<p, a>>,
                   exploreJavaRegistry(p, a, outJavaPath, CallState(wow)), valueOut)

CrashExploreJavaRegistry ==
    /\ Running
    /\ \E p \in Products, a \in {"0", "KEY_WOW64_32KEY", "KEY_WOW64_64KEY"} :
          Crashed("exploreJavaRegistry", <<p, a>>,
                  exploreJavaRegistry(p, a, outJavaPath, CallState(wow)))

CallGetRegValue ==
    /\ Running
    /\ \E k \in {TestKey, ProdKey("Java Development Kit")} :
          LET g == getRegValue(k, "JavaHome", "0", valueOut, CallState(wow))
          IN Returned("getRegValue", k,
                      [ret |-> g.ret, out |-> outJavaPath, st |-> g.st], g.value)

CrashGetRegValue ==
    /\ Running
    /\ \E k \in {TestKey, ProdKey("Java Development Kit")} :
          LET g == getRegValue(k, "JavaHome", "0", valueOut, CallState(wow))
          IN Crashed("getRegValue", k,
                     [ret |-> g.ret, out |-> outJavaPath, st |-> g.st])

CallFindJavaInProgramFiles ==
    /\ Running
    /\ Returned("findJavaInProgramFiles", <<>>,
                findJavaInProgramFiles(outJavaPath, CallState(wow)), valueOut)

NextEnv == CallFindJavaInEnvPath

SpecEnv == InitEnv /\ [][NextEnv]_vars

NextCheck == CallCheckPath \/ CallCheckBinPath

SpecCheck == InitCheck /\ [][NextCheck]_vars

NextRegValue == CallGetRegValue \/ CrashGetRegValue

SpecRegValue == InitRegValue /\ [][NextRegValue]_vars

Next ==
    \/ CallCheckPath
    \/ CallFindJavaInEnvPath
    \/ CallFindJavaInRegistry
    \/ CrashFindJavaInRegistry
    \/ CallFindJavaInProgramFiles

Spec == Init /\ [][Next]_vars

NextPF == CallFindJavaInProgramFiles

SpecPF == InitPF /\ [][NextPF]_vars

NextReg == CallFindJavaInRegistry \/ CrashFindJavaInRegistry

SpecReg == InitReg /\ [][NextReg]_vars

NextExplore == CallExploreJavaRegistry \/ CrashExploreJavaRegistry

SpecExplore == InitExplore /\ [][NextExplore]_vars

-----------------------------------------------------------------------------
(* Vocabulary of the properties, read off the host and the logs *)

\* The launcher passes: the file exists and exits with code 0.
Runnable(l) == l \in DOMAIN files /\ files[l] = "exit0"

ProbedPaths == [i \in 1..Len(probes) |-> probes[i].path]

\* Index of the first element of c that satisfies Runnable, 0 when none does.
FirstRunnable(c) ==
    IF \E i \in 1..Len(c) : Runnable(c[i])
    THEN CHOOSE i \in 1..Len(c) :
            Runnable(c[i]) /\ \A j \in 1..(i - 1) : ~Runnable(c[j])
    ELSE 0

\* The ';'-separated entries of s: the runs of tokens between separators.
SepPositions(s) == {i \in 1..Len(s) : s[i] = ";"}

EntryCount(s) == Cardinality(SepPositions(s)) + 1

EntryStart(s, k) ==
    IF k = 1 THEN 1
    ELSE 1 + CHOOSE i \in SepPositions(s) :
                 Cardinality({j \in SepPositions(s) : j < i}) = k - 2

EntryEnd(s, k) ==
    IF k = EntryCount(s) THEN Len(s)
    ELSE (CHOOSE i \in SepPositions(s) :
              Cardinality({j \in SepPositions(s) : j < i}) = k - 1) - 1

PathEntries(s) == [k \in 1..EntryCount(s) |-> SubSeq(s, EntryStart(s, k), EntryEnd(s, k))]

\* The priority sequence of the environment locator.
EnvCandidates ==
    (IF IsSet("JAVA_HOME") THEN <<BinLauncher(getenv("JAVA_HOME"))>> ELSE <<>>) \o
    (IF IsSet("PATH")
     THEN [k \in 1..EntryCount(getenv("PATH")) |->
              DirectLauncher(PathEntries(getenv("PATH"))[k])]
     ELSE <<>>)

\* What a pass over Program Files sees under redirection state w.
Matched(w) == SelectSeq(progFiles[w].entries, LAMBDA e : e.name[1] = "j")

PFLauncher(w, name) ==
    <<progFiles[w].folder, Str("Java"), name, Str("bin"), Str("java.exe")>>

\* The enumerated entries that are directories holding a runnable launcher.
ValidEntries(w) ==
    {i \in 1..Len(Matched(w)) :
        Matched(w)[i].dir /\ Runnable(PFLauncher(w, Matched(w)[i].name))}

PassFinds(w) ==
    progFiles[w].result = "S_OK" /\ progFiles[w].javaDir /\ ValidEntries(w) # {}

MinOf(S) == CHOOSE i \in S : \A j \in S : i <= j

MaxOf(S) == CHOOSE i \in S : \A j \in S : i >= j

DirsUpTo(w, k) == Cardinality({i \in 1..k : Matched(w)[i].dir})

LastPass == passes[Len(passes)]

-----------------------------------------------------------------------------
(* Properties *)

\* C1, as claimed: the pass of findJavaInProgramFiles that succeeds returns the
\* launcher of the LAST enumerated j* directory that passes the bin-scoped
\* check.
C1_LastEnumeratedWins ==
    (op = "findJavaInProgramFiles" /\ ret = "true") =>
        outJavaPath =
            PFLauncher(LastPass.wow, Matched(LastPass.wow)[MaxOf(ValidEntries(LastPass.wow))].name)

\* C1, amended: the pass that succeeds returns the launcher of the FIRST
\* enumerated j* directory that passes the bin-scoped check, and the
\* enumeration stops there: the directories after it are not probed.
C1_FirstEnumeratedWins ==
    (op = "findJavaInProgramFiles" /\ ret = "true") =>
        LET w == LastPass.wow
            k == MinOf(ValidEntries(w))
        IN /\ PassFinds(w)
           /\ outJavaPath = PFLauncher(w, Matched(w)[k].name)
           /\ LastPass.probed = DirsUpTo(w, k)

\* Two enumerated directories pass the check and the first one was returned.
C1_Witness ==
    /\ op = "findJavaInProgramFiles" /\ ret = "true"
    /\ Cardinality(ValidEntries(LastPass.wow)) >= 2
    /\ outJavaPath = PFLauncher(LastPass.wow, Matched(LastPass.wow)[1].name)
    /\ LastPass.probed = 1

\* C7: findJavaInProgramFiles first runs a pass under the redirection state
\* it was called in and returns that pass's result when it succeeds; a second
\* pass, with redirection suppressed, runs exactly when the first failed and
\* the host is AMD64, and then the result is the second pass's result.  A
\* non-AMD64 host sees one pass.
C7_TwoPasses ==
    op = "findJavaInProgramFiles" =>
        /\ Len(passes) \in {1, 2}
        /\ passes[1].wow = wow
        /\ passes[1].ret <=> PassFinds(wow)
        /\ Len(passes) = 2 <=> (~passes[1].ret /\ arch = "AMD64")
        /\ Len(passes) = 1 =>
              ret = Bool(passes[1].ret) /\ (passes[1].ret => outJavaPath = passes[1].out)
        /\ Len(passes) = 2 =>
              /\ ~passes[2].wow
              /\ passes[2].ret <=> PassFinds(FALSE)
              /\ ret = Bool(passes[2].ret)
              /\ outJavaPath = passes[2].out

\* The redirected pass failed on an AMD64 host and the pass with redirection
\* suppressed found Java.
C7_Witness ==
    /\ op = "findJavaInProgramFiles"
    /\ arch = "AMD64"
    /\ Len(passes) = 2
    /\ ~passes[1].ret /\ passes[1].probed >= 1
    /\ passes[2].ret
    /\ ret = "true"


\* C3: findJavaInEnvPath returns the first runnable candidate of the sequence
\* [JAVA_HOME\bin\java.exe, then <entry>\java.exe for each ';'-separated PATH
\* entry, left to right], probes the candidates in that order and none after
\* the one it returns; with no runnable candidate (or PATH unset) it probes
\* them all and returns false.
C3_EnvFirstMatch ==
    op = "findJavaInEnvPath" =>
        LET c == EnvCandidates
            k == FirstRunnable(c)
        IN IF k = 0
           THEN ret = "false" /\ ProbedPaths = c
           ELSE ret = "true" /\ outJavaPath = c[k] /\ ProbedPaths = SubSeq(c, 1, k)

\* JAVA_HOME and the first PATH entry are different runnable candidates and
\* the call returned JAVA_HOME's after a single probe.
C3_Witness ==
    /\ op = "findJavaInEnvPath"
    /\ IsSet("JAVA_HOME") /\ IsSet("PATH")
    /\ Runnable(BinLauncher(getenv("JAVA_HOME")))
    /\ Runnable(DirectLauncher(PathEntries(getenv("PATH"))[1]))
    /\ PathEntries(getenv("PATH"))[1] # getenv("JAVA_HOME")
    /\ ret = "true"
    /\ outJavaPath = BinLauncher(getenv("JAVA_HOME"))
    /\ Len(probes) = 1

\* C6: checkPath appends java.exe and succeeds exactly when that file exists
\* and running it exits with code 0; a missing file spawns no child; a
\* non-zero exit code or a failed spawn gives false; checkBinPath is the
\* same check on <dir>\bin.
C6_CheckPath ==
    op \in {"checkPath", "checkBinPath"} =>
        LET l == IF op = "checkPath" THEN Append(arg, Str("java.exe"))
                 ELSE Append(Append(arg, Str("bin")), Str("java.exe"))
        IN /\ Len(probes) = 1
           /\ probes[1].path = l
           /\ probes[1].spawned <=> l \in DOMAIN files
           /\ ret = "true" <=> (l \in DOMAIN files /\ files[l] = "exit0")
           /\ ret \in {"true", "false"}

\* The launcher exists and the child exited with a non-zero code: false.
C6_Witness ==
    /\ op = "checkBinPath"
    /\ Append(Append(arg, Str("bin")), Str("java.exe")) \in DOMAIN files
    /\ files[Append(Append(arg, Str("bin")), Str("java.exe"))] = "exit1"
    /\ probes[1].spawned
    /\ ret = "false"

\* The (view, product) combinations in the order of findJavaInRegistry.
JRE == Str("Java Runtime Environment")

JDK == Str("Java Development Kit")

ProbeOrder ==
    IF arch = "AMD64"
    THEN << <<"default", JRE>>, <<"default", JDK>>, <<"32", JRE>>, <<"32", JDK>>,
            <<"64", JRE>>, <<"64", JDK>> >>
    ELSE << <<"default", JRE>>, <<"default", JDK>> >>

\* The combinations the last call opened, from its registry read log: every
\* exploreJavaRegistry call starts with the read of CurrentVersion.
CurrentVersionReads == SelectSeq(regReads, LAMBDA r : r.name = "CurrentVersion")

ProbedCombinations ==
    [i \in 1..Len(CurrentVersionReads) |->
        <<CurrentVersionReads[i].view, CurrentVersionReads[i].key[2]>>]

\* The registry holds CurrentVersion and, under that version, JavaHome.
HasJavaHome(view, product) ==
    /\ <<JavaSoft, product>> \in DOMAIN registry[view]
    /\ "CurrentVersion" \in DOMAIN registry[view][<<JavaSoft, product>>]
    /\ LET v == registry[view][<<JavaSoft, product>>]["CurrentVersion"].data
       IN /\ <<JavaSoft, product, v>> \in DOMAIN registry[view]
          /\ "JavaHome" \in DOMAIN registry[view][<<JavaSoft, product, v>>]

JavaHomeOf(view, product) ==
    registry[view][<<JavaSoft, product,
                     registry[view][<<JavaSoft, product>>]["CurrentVersion"].data>>]["JavaHome"].data

NoProductKeys(view) == DOMAIN registry[view] = {}

\* C2: findJavaInRegistry opens the combinations in the order default JRE,
\* default JDK, 32-bit JRE, 32-bit JDK, 64-bit JRE, 64-bit JDK, the forced
\* views only on AMD64; it returns the candidate of the first combination
\* whose check passes and reads nothing from the registry after it; it returns
\* false only after all of them failed.  A JavaHome read from the registry is
\* checked as <JavaHome>\bin\java.exe.  With a runnable entry under the 32-bit
\* view only, on AMD64, that entry's launcher is returned.
C2_RegistryOrder ==
    op = "findJavaInRegistry" =>
        /\ Len(ProbedCombinations) <= Len(ProbeOrder)
        /\ ProbedCombinations = SubSeq(ProbeOrder, 1, Len(ProbedCombinations))
        /\ \A i \in 1..Len(probes) :
              /\ probes[i].reads >= 2
              /\ regReads[probes[i].reads].name = "JavaHome"
              /\ regReads[probes[i].reads].status = "ERROR_SUCCESS" =>
                    probes[i].path =
                        BinLauncher(registry[regReads[probes[i].reads].view]
                                            [regReads[probes[i].reads].key]["JavaHome"].data)
              /\ probes[i].result => i = Len(probes)
        /\ ret = "true" =>
              /\ Len(probes) >= 1
              /\ probes[Len(probes)].result
              /\ probes[Len(probes)].reads = Len(regReads)
              /\ outJavaPath = probes[Len(probes)].path
        /\ ret = "false" =>
              /\ ProbedCombinations = ProbeOrder
              /\ \A i \in 1..Len(probes) : ~probes[i].result
        /\ (/\ arch = "AMD64"
            /\ NoProductKeys("default")
            /\ HasJavaHome("32", JRE)
            /\ Runnable(BinLauncher(JavaHomeOf("32", JRE)))) =>
              /\ ret = "true"
              /\ outJavaPath = BinLauncher(JavaHomeOf("32", JRE))
              /\ Len(ProbedCombinations) = 3

\* AMD64, nothing under the default and 64-bit views, a runnable JRE and a
\* different runnable JDK under the 32-bit view: the JRE's launcher was
\* returned.
C2_Witness ==
    /\ op = "findJavaInRegistry"
    /\ arch = "AMD64"
    /\ NoProductKeys("default")
    /\ HasJavaHome("32", JRE) /\ Runnable(BinLauncher(JavaHomeOf("32", JRE)))
    /\ HasJavaHome("32", JDK) /\ Runnable(BinLauncher(JavaHomeOf("32", JDK)))
    /\ JavaHomeOf("32", JDK) # JavaHomeOf("32", JRE)
    /\ ret = "true"
    /\ outJavaPath = BinLauncher(JavaHomeOf("32", JRE))

\* C4: every call leaves the WOW64 redirection state as it found it.
C4_RedirectionRestored == [][wow' = wow]_vars

\* findJavaInProgramFiles, called with redirection in force, ran its second
\* pass with redirection suppressed, checkPath suppressed and reverted it again
\* inside that pass for a launcher that is missing, and redirection is in force
\* after the call.
C4_Witness ==
    /\ op = "findJavaInProgramFiles"
    /\ Len(passes) = 2
    /\ passes[1].wow /\ ~passes[2].wow
    /\ passes[2].probed >= 1
    /\ ~probes[Len(probes)].spawned
    /\ ret = "false"
    /\ wow

\* C5, as claimed: with CurrentVersion present and the version subkey lacking
\* JavaHome, exploreJavaRegistry checks no path, returns false and leaves
\* *outJavaPath alone.
C5_NoCheckWithoutJavaHome ==
    (/\ op = "exploreJavaRegistry"
     /\ ret # "crash"
     /\ ProdKey(arg[1]) \in DOMAIN registry[ViewOf(arg[2])]
     /\ "CurrentVersion" \in DOMAIN registry[ViewOf(arg[2])][ProdKey(arg[1])]
     /\ ~HasJavaHome(ViewOf(arg[2]), Str(arg[1]))) =>
        /\ probes = <<>>
        /\ ret = "false"
        /\ outJavaPath = outBefore

\* C8, as claimed: a stored value larger than 4096 bytes and smaller than
\* 65536 bytes is returned; a value larger than 65536 bytes makes getRegValue
\* return false with outValue unset.
C8_GrowsUpTo64K ==
    (/\ op = "getRegValue"
     /\ ret # "crash"
     /\ arg \in DOMAIN registry["default"]
     /\ "JavaHome" \in DOMAIN registry["default"][arg]) =>
        LET v == registry["default"][arg]["JavaHome"]
        IN /\ (v.size > InitialBufferSize /\ v.size < MaxBufferSize) =>
                 (ret = "true" /\ valueOut = v.data)
           /\ v.size > MaxBufferSize => (ret = "false" /\ valueOut = <<>>)

\* C9, as claimed: buffer[size] = 0 is written below the allocated size of
\* buffer, whatever the query answered.
C9_TerminatorInBounds ==
    \A i \in 1..Len(regReads) :
        regReads[i].status \notin {"NO_KEY", "ERROR_MORE_DATA"} =>
            regReads[i].index < regReads[i].cap

\* C10: a locator that returns false leaves *outJavaPath as it was, and one
\* that returns true has stored the path of the launcher its last checkPath
\* call accepted.
C10_OutWrittenOnlyOnSuccess ==
    op \in {"findJavaInEnvPath", "findJavaInRegistry", "findJavaInProgramFiles"} =>
        /\ ret = "false" => outJavaPath = outBefore
        /\ ret = "true" =>
              /\ Len(probes) >= 1
              /\ probes[Len(probes)].result
              /\ outJavaPath = probes[Len(probes)].path
              /\ Runnable(outJavaPath)

\* A locator probed candidates, rejected them all and returned false while the
\* caller's path held the result of an earlier successful call.
C10_Witness ==
    /\ op \in {"findJavaInEnvPath", "findJavaInRegistry", "findJavaInProgramFiles"}
    /\ ret = "false"
    /\ Len(probes) >= 2
    /\ outBefore # EmptyPath
    /\ outJavaPath = outBefore

====
